---- MODULE Spec2Model ----
(***************************************************************************)
(* Model of toy-pay: the per-client account state machine (client.rs),     *)
(* the stored transaction record (transaction.rs) and the ledger loop      *)
(* process_requests (main.rs).                                             *)
(*                                                                         *)
(* Decimal amounts are modelled as integers counting units of the          *)
(* smallest scale; Decimal equality and ordering are numeric, so the scale *)
(* carries no state.  Option<Decimal> is a sequence of length 0 or 1.      *)
(***************************************************************************)
EXTENDS Integers, Sequences, FiniteSets, TLC

\* ---- bounds of the explored input space ----
MaxClient == 2
MaxTx == 2
MaxAmount == 1
MaxTokens == 5
\* longest input vector explored whole, from its first token to its last
MaxRun == 2

ClientIds == 1..MaxClient
TxIds == 1..MaxTx
\* Token.amount is parsed from the input and is not range-checked: negative
\* and zero amounts reach the account operations.
Amounts == (-1)..MaxAmount
None == <<>>
Some(a) == <<a>>
OptAmounts == {None} \cup {Some(a) : a \in Amounts}
\* the inputs whose amounts are all non-negative
NonNegOptAmounts == {None} \cup {Some(a) : a \in 0..MaxAmount}

\* ---- enum Error (main.rs) and Ok(()) ----
Ok == <<"Ok">>
LockedAccount(c) == <<"LockedAccount", c>>
TransactionDoesNotExist(c, t) == <<"TransactionDoesNotExist", c, t>>
NotEnoughCredit(c) == <<"NotEnoughCredit", c>>
TransactionNotDisputed(t, c) == <<"TransactionNotDisputed", t, c>>
\* the ledger did not call any account operation (amount missing)
Skipped == <<"Skipped">>

\* ---- Transaction (transaction.rs) ----
Transaction_new(id, amount) ==
    [transaction_id |-> id, amount |-> amount, disputed |-> FALSE]

get_amount(tr) == tr.amount

get_dispute_status(tr) == tr.disputed

\* set_dispute_status that assigns nothing
set_dispute_status_noop(tr, dispute) == tr

set_dispute_status(tr, dispute) == [tr EXCEPT !.disputed = dispute]

\* ---- BTreeMap helpers ----
EmptyMap == <<>>

\* BTreeMap::insert: adds the key or replaces the value stored under it
insert(m, k, v) == [x \in (DOMAIN m) \cup {k} |-> IF x = k THEN v ELSE m[x]]

\* ---- Client (client.rs) ----
Client_new(id) ==
    [client_id |-> id,
     available_amount |-> 0,
     held_amount |-> 0,
     total_amount |-> 0,
     locked |-> FALSE,
     transactions |-> EmptyMap]

Ret(self, res) == [client |-> self, result |-> res]

\* deposit without the lock check
deposit_ignores_lock(self, transaction_id, amount) ==
    Ret([self EXCEPT
           !.transactions = insert(@, transaction_id,
                                   Transaction_new(transaction_id, amount)),
           !.total_amount = @ + amount,
           !.available_amount = @ + amount],
        Ok)

\* deposit that keeps the record already stored under the id
deposit_keeps_existing(self, transaction_id, amount) ==
    IF self.locked
    THEN Ret(self, LockedAccount(self.client_id))
    ELSE Ret([self EXCEPT
                !.transactions =
                    IF transaction_id \in DOMAIN @
                    THEN @
                    ELSE insert(@, transaction_id,
                                Transaction_new(transaction_id, amount)),
                !.total_amount = @ + amount,
                !.available_amount = @ + amount],
             Ok)

deposit(self, transaction_id, amount) ==
    IF self.locked
    THEN Ret(self, LockedAccount(self.client_id))
    ELSE Ret([self EXCEPT
                !.transactions = insert(@, transaction_id,
                                        Transaction_new(transaction_id, amount)),
                !.total_amount = @ + amount,
                !.available_amount = @ + amount],
             Ok)

\* withdrawal whose credit check counts the held funds
withdrawal_checks_total(self, transaction_id, amount) ==
    IF self.locked
    THEN Ret(self, LockedAccount(self.client_id))
    ELSE IF self.total_amount < amount
    THEN Ret(self, NotEnoughCredit(self.client_id))
    ELSE Ret([self EXCEPT
                !.transactions = insert(@, transaction_id,
                                        Transaction_new(transaction_id, amount)),
                !.total_amount = @ - amount,
                !.available_amount = @ - amount],
             Ok)

withdrawal(self, transaction_id, amount) ==
    IF self.locked
    THEN Ret(self, LockedAccount(self.client_id))
    ELSE IF self.available_amount < amount
    THEN Ret(self, NotEnoughCredit(self.client_id))
    ELSE Ret([self EXCEPT
                !.transactions = insert(@, transaction_id,
                                        Transaction_new(transaction_id, amount)),
                !.total_amount = @ - amount,
                !.available_amount = @ - amount],
             Ok)

\* dispute that is a no-op on a record already under dispute
dispute_idempotent(self, transaction_id) ==
    IF self.locked
    THEN Ret(self, LockedAccount(self.client_id))
    ELSE IF transaction_id \in DOMAIN self.transactions
    THEN IF get_dispute_status(self.transactions[transaction_id])
         THEN Ret(self, Ok)
         ELSE LET transaction ==
                      set_dispute_status(self.transactions[transaction_id], TRUE)
              IN Ret([self EXCEPT
                        !.transactions[transaction_id] = transaction,
                        !.held_amount = @ + get_amount(transaction),
                        !.available_amount = @ - get_amount(transaction)],
                     Ok)
    ELSE Ret(self, TransactionDoesNotExist(self.client_id, transaction_id))

\* dispute guarded, as withdrawal is, by the available balance
dispute_checks_credit(self, transaction_id) ==
    IF self.locked
    THEN Ret(self, LockedAccount(self.client_id))
    ELSE IF transaction_id \in DOMAIN self.transactions
    THEN IF self.available_amount < get_amount(self.transactions[transaction_id])
         THEN Ret(self, NotEnoughCredit(self.client_id))
         ELSE LET transaction ==
                      set_dispute_status(self.transactions[transaction_id], TRUE)
              IN Ret([self EXCEPT
                        !.transactions[transaction_id] = transaction,
                        !.held_amount = @ + get_amount(transaction),
                        !.available_amount = @ - get_amount(transaction)],
                     Ok)
    ELSE Ret(self, TransactionDoesNotExist(self.client_id, transaction_id))

\* dispute that freezes the account as chargeback does
dispute_locks(self, transaction_id) ==
    IF self.locked
    THEN Ret(self, LockedAccount(self.client_id))
    ELSE IF transaction_id \in DOMAIN self.transactions
    THEN LET transaction == set_dispute_status(self.transactions[transaction_id], TRUE)
         IN Ret([self EXCEPT
                   !.transactions[transaction_id] = transaction,
                   !.held_amount = @ + get_amount(transaction),
                   !.available_amount = @ - get_amount(transaction),
                   !.locked = TRUE],
                Ok)
    ELSE Ret(self, TransactionDoesNotExist(self.client_id, transaction_id))

dispute(self, transaction_id) ==
    IF self.locked
    THEN Ret(self, LockedAccount(self.client_id))
    ELSE IF transaction_id \in DOMAIN self.transactions
    THEN LET transaction == set_dispute_status(self.transactions[transaction_id], TRUE)
         IN Ret([self EXCEPT
                   !.transactions[transaction_id] = transaction,
                   !.held_amount = @ + get_amount(transaction),
                   !.available_amount = @ - get_amount(transaction)],
                Ok)
    ELSE Ret(self, TransactionDoesNotExist(self.client_id, transaction_id))

\* the body resolve and chargeback would share with the flag test dropped or
\* the flag left set: keep_flag leaves the record disputed, unchecked skips
\* the get_dispute_status test
resolve_variant(self, transaction_id, keep_flag, unchecked) ==
    IF self.locked
    THEN Ret(self, LockedAccount(self.client_id))
    ELSE IF transaction_id \in DOMAIN self.transactions
    THEN IF unchecked \/ get_dispute_status(self.transactions[transaction_id])
         THEN LET transaction ==
                      IF keep_flag
                      THEN self.transactions[transaction_id]
                      ELSE set_dispute_status(self.transactions[transaction_id], FALSE)
              IN Ret([self EXCEPT
                        !.transactions[transaction_id] = transaction,
                        !.held_amount = @ - get_amount(transaction),
                        !.available_amount = @ + get_amount(transaction)],
                     Ok)
         ELSE Ret(self, TransactionNotDisputed(transaction_id, self.client_id))
    ELSE Ret(self, TransactionDoesNotExist(self.client_id, transaction_id))

\* resolve that releases the funds but leaves the record disputed
resolve_keeps_flag(self, transaction_id) ==
    resolve_variant(self, transaction_id, TRUE, FALSE)

\* resolve without the get_dispute_status test
resolve_unchecked(self, transaction_id) ==
    resolve_variant(self, transaction_id, FALSE, TRUE)

\* resolve that releases the funds into available twice
resolve_double_release(self, transaction_id) ==
    LET r == resolve_variant(self, transaction_id, FALSE, FALSE)
    IN IF r.result = Ok
       THEN Ret([r.client EXCEPT
                   !.available_amount =
                       @ + get_amount(self.transactions[transaction_id])],
                Ok)
       ELSE r

\* resolve that takes the amount from available, as dispute does
resolve_takes_available(self, transaction_id) ==
    LET r == resolve_variant(self, transaction_id, FALSE, FALSE)
    IN IF r.result = Ok
       THEN Ret([r.client EXCEPT
                   !.available_amount =
                       self.available_amount
                           - get_amount(self.transactions[transaction_id])],
                Ok)
       ELSE r

\* resolve with the two error returns exchanged
resolve_swapped_errors(self, transaction_id) ==
    LET r == resolve_variant(self, transaction_id, FALSE, FALSE)
    IN IF r.result = TransactionNotDisputed(transaction_id, self.client_id)
       THEN Ret(self, TransactionDoesNotExist(self.client_id, transaction_id))
       ELSE IF r.result = TransactionDoesNotExist(self.client_id, transaction_id)
       THEN Ret(self, TransactionNotDisputed(transaction_id, self.client_id))
       ELSE r

resolve(self, transaction_id) ==
    IF self.locked
    THEN Ret(self, LockedAccount(self.client_id))
    ELSE IF transaction_id \in DOMAIN self.transactions
    THEN IF get_dispute_status(self.transactions[transaction_id])
         THEN LET transaction ==
                      set_dispute_status(self.transactions[transaction_id], FALSE)
              IN Ret([self EXCEPT
                        !.transactions[transaction_id] = transaction,
                        !.held_amount = @ - get_amount(transaction),
                        !.available_amount = @ + get_amount(transaction)],
                     Ok)
         ELSE Ret(self, TransactionNotDisputed(transaction_id, self.client_id))
    ELSE Ret(self, TransactionDoesNotExist(self.client_id, transaction_id))

\* the body of chargeback with one statement changed:
\*   "keeps_total"  leaves total_amount alone
\*   "no_lock"      does not set locked
\*   "locks_first"  sets locked before the dispute status is tested
\*   "clears_all"   clears the disputed flag of every record
chargeback_variant(self, transaction_id, how) ==
    IF self.locked
    THEN Ret(self, LockedAccount(self.client_id))
    ELSE IF transaction_id \in DOMAIN self.transactions
    THEN IF get_dispute_status(self.transactions[transaction_id])
         THEN LET transaction ==
                      set_dispute_status(self.transactions[transaction_id], FALSE)
                  cleared ==
                      [u \in DOMAIN self.transactions |->
                          set_dispute_status(self.transactions[u], FALSE)]
              IN Ret([self EXCEPT
                        !.transactions =
                            IF how = "clears_all"
                            THEN cleared
                            ELSE [@ EXCEPT ![transaction_id] = transaction],
                        !.held_amount = @ - get_amount(transaction),
                        !.total_amount =
                            IF how = "keeps_total"
                            THEN @
                            ELSE @ - get_amount(transaction),
                        !.locked = (how # "no_lock")],
                     Ok)
         ELSE Ret([self EXCEPT !.locked = (how = "locks_first")],
                  TransactionNotDisputed(transaction_id, self.client_id))
    ELSE Ret(self, TransactionDoesNotExist(self.client_id, transaction_id))

chargeback_keeps_total(self, transaction_id) ==
    chargeback_variant(self, transaction_id, "keeps_total")

chargeback_no_lock(self, transaction_id) ==
    chargeback_variant(self, transaction_id, "no_lock")

chargeback_locks_first(self, transaction_id) ==
    chargeback_variant(self, transaction_id, "locks_first")

chargeback_clears_all(self, transaction_id) ==
    chargeback_variant(self, transaction_id, "clears_all")

chargeback(self, transaction_id) ==
    IF self.locked
    THEN Ret(self, LockedAccount(self.client_id))
    ELSE IF transaction_id \in DOMAIN self.transactions
    THEN IF get_dispute_status(self.transactions[transaction_id])
         THEN LET transaction ==
                      set_dispute_status(self.transactions[transaction_id], FALSE)
              IN Ret([self EXCEPT
                        !.transactions[transaction_id] = transaction,
                        !.held_amount = @ - get_amount(transaction),
                        !.total_amount = @ - get_amount(transaction),
                        !.locked = TRUE],
                     Ok)
         ELSE Ret(self, TransactionNotDisputed(transaction_id, self.client_id))
    ELSE Ret(self, TransactionDoesNotExist(self.client_id, transaction_id))

\* ---- ledger (main.rs) ----
VARIABLES
    clients,    \* BTreeMap<u16, Client> owned by process_requests
    consumed,   \* number of tokens the for loop has taken from the input
    last,       \* the token taken last and the outcome of its account call
    prev,       \* the value of clients before that token was taken
    tokens      \* Vec<Token> handed to process_requests, when the input is
                \* fixed in advance; empty when each token is drawn as the
                \* loop reaches it

vars == <<clients, consumed, last, prev, tokens>>

Token(ty, c, t, a) ==
    [transaction_type |-> ty, client_id |-> c, transaction_id |-> t, amount |-> a]

NoToken == Token("None", 0, 0, None)

\* clients.insert(id, Client::new(id)): a new account at every reference
insert_new(m, id) == insert(m, id, Client_new(id))

\* clients.entry(id).or_insert_with(|| Client::new(id))
or_insert_with(m, id) == IF id \in DOMAIN m THEN m ELSE insert(m, id, Client_new(id))

\* the loop body returning from process_requests at the first Err
Route_stops_on_error(token, r) ==
    /\ clients' = insert(or_insert_with(clients, token.client_id),
                         token.client_id, r.client)
    /\ last' = [token |-> token, result |-> r.result]
    /\ prev' = clients
    /\ consumed' = IF r.result = Ok THEN consumed + 1 ELSE Len(tokens)
    /\ tokens' = tokens

\* one iteration of the loop whose arm calls the account operation giving r
Route(token, r) ==
    /\ clients' = insert(or_insert_with(clients, token.client_id),
                         token.client_id, r.client)
    /\ last' = [token |-> token, result |-> r.result]
    /\ prev' = clients
    /\ consumed' = consumed + 1
    /\ tokens' = tokens

\* the arm looks the account up before it tests the amount
Skip_creates_account(token) ==
    /\ clients' = or_insert_with(clients, token.client_id)
    /\ last' = [token |-> token, result |-> Skipped]
    /\ prev' = clients
    /\ consumed' = consumed + 1
    /\ tokens' = tokens

\* the arm's if let Some(amount) fails: nothing is looked up or called
Skip(token) ==
    /\ clients' = clients
    /\ last' = [token |-> token, result |-> Skipped]
    /\ prev' = clients
    /\ consumed' = consumed + 1
    /\ tokens' = tokens

\* the account of c looked up in one transaction map shared by all clients
Entry_shared_transactions(c) ==
    LET own == or_insert_with(clients, c)[c]
        ids == UNION {DOMAIN clients[d].transactions : d \in DOMAIN clients}
        holder(t) == IF t \in DOMAIN own.transactions
                     THEN own
                     ELSE clients[CHOOSE d \in DOMAIN clients :
                                      t \in DOMAIN clients[d].transactions]
    IN [own EXCEPT !.transactions = [t \in ids |-> holder(t).transactions[t]]]

\* the account an arm hands to the operation
Entry(c) == or_insert_with(clients, c)[c]

Init ==
    /\ clients = EmptyMap
    /\ consumed = 0
    /\ last = [token |-> NoToken, result |-> <<"None">>]
    /\ prev = EmptyMap
    /\ tokens = <<>>

\* the Deposit arm, for a token whose amount is drawn from S
DepositFrom(S) ==
    /\ consumed < MaxTokens
    /\ \E c \in ClientIds, t \in TxIds, a \in S :
        LET token == Token("Deposit", c, t, a) IN
        IF a # None
        THEN Route(token, deposit(Entry(c), t, a[1]))
        ELSE Skip(token)

\* the Withdrawal arm, for a token whose amount is drawn from S
WithdrawalFrom(S) ==
    /\ consumed < MaxTokens
    /\ \E c \in ClientIds, t \in TxIds, a \in S :
        LET token == Token("Withdrawal", c, t, a) IN
        IF a # None
        THEN Route(token, withdrawal(Entry(c), t, a[1]))
        ELSE Skip(token)

Deposit == DepositFrom(OptAmounts)

Withdrawal == WithdrawalFrom(OptAmounts)

\* the amount field of the three arms below is never read
Dispute ==
    /\ consumed < MaxTokens
    /\ \E c \in ClientIds, t \in TxIds :
        Route(Token("Dispute", c, t, None), dispute(Entry(c), t))

Resolve ==
    /\ consumed < MaxTokens
    /\ \E c \in ClientIds, t \in TxIds :
        Route(Token("Resolve", c, t, None), resolve(Entry(c), t))

Chargeback ==
    /\ consumed < MaxTokens
    /\ \E c \in ClientIds, t \in TxIds :
        Route(Token("Chargeback", c, t, None), chargeback(Entry(c), t))

Next == Deposit \/ Withdrawal \/ Dispute \/ Resolve \/ Chargeback

Spec == Init /\ [][Next]_vars

\* the same ledger fed only with non-negative amounts
DepositNonNeg == DepositFrom(NonNegOptAmounts)

WithdrawalNonNeg == WithdrawalFrom(NonNegOptAmounts)

NextNonNeg == DepositNonNeg \/ WithdrawalNonNeg \/ Dispute \/ Resolve \/ Chargeback

SpecNonNeg == Init /\ [][NextNonNeg]_vars

\* ---- the ledger fed an input in which no id is stored twice in an account
\* ---- and no record is disputed while it is under dispute
DepositFresh ==
    /\ consumed < MaxTokens
    /\ \E c \in ClientIds, t \in TxIds, a \in OptAmounts :
        /\ t \notin DOMAIN Entry(c).transactions
        /\ LET token == Token("Deposit", c, t, a) IN
           IF a # None
           THEN Route(token, deposit(Entry(c), t, a[1]))
           ELSE Skip(token)

WithdrawalFresh ==
    /\ consumed < MaxTokens
    /\ \E c \in ClientIds, t \in TxIds, a \in OptAmounts :
        /\ t \notin DOMAIN Entry(c).transactions
        /\ LET token == Token("Withdrawal", c, t, a) IN
           IF a # None
           THEN Route(token, withdrawal(Entry(c), t, a[1]))
           ELSE Skip(token)

DisputeOnce ==
    /\ consumed < MaxTokens
    /\ \E c \in ClientIds, t \in TxIds :
        /\ ~(/\ t \in DOMAIN Entry(c).transactions
             /\ get_dispute_status(Entry(c).transactions[t]))
        /\ Route(Token("Dispute", c, t, None), dispute(Entry(c), t))

NextUnique == DepositFresh \/ WithdrawalFresh \/ DisputeOnce \/ Resolve \/ Chargeback

SpecUnique == Init /\ [][NextUnique]_vars

\* ---- process_requests on an input vector fixed in advance ----
AllTokens ==
    {Token(ty, c, t, a) : ty \in {"Deposit", "Withdrawal"},
                          c \in ClientIds, t \in TxIds, a \in OptAmounts}
    \cup {Token(ty, c, t, None) : ty \in {"Dispute", "Resolve", "Chargeback"},
                                  c \in ClientIds, t \in TxIds}

Inputs == UNION {[1..n -> AllTokens] : n \in 0..MaxRun}

InitRun ==
    /\ clients = EmptyMap
    /\ consumed = 0
    /\ last = [token |-> NoToken, result |-> <<"None">>]
    /\ prev = EmptyMap
    /\ tokens \in Inputs

\* the for loop has a next token and it is of type ty
Taking(ty) ==
    /\ consumed < Len(tokens)
    /\ tokens[consumed + 1].transaction_type = ty

RunDeposit ==
    /\ Taking("Deposit")
    /\ LET token == tokens[consumed + 1] IN
       IF token.amount # None
       THEN Route(token, deposit(Entry(token.client_id),
                                 token.transaction_id, token.amount[1]))
       ELSE Skip(token)

RunWithdrawal ==
    /\ Taking("Withdrawal")
    /\ LET token == tokens[consumed + 1] IN
       IF token.amount # None
       THEN Route(token, withdrawal(Entry(token.client_id),
                                    token.transaction_id, token.amount[1]))
       ELSE Skip(token)

RunDispute ==
    /\ Taking("Dispute")
    /\ LET token == tokens[consumed + 1] IN
       Route(token, dispute(Entry(token.client_id), token.transaction_id))

RunResolve ==
    /\ Taking("Resolve")
    /\ LET token == tokens[consumed + 1] IN
       Route(token, resolve(Entry(token.client_id), token.transaction_id))

RunChargeback ==
    /\ Taking("Chargeback")
    /\ LET token == tokens[consumed + 1] IN
       Route(token, chargeback(Entry(token.client_id), token.transaction_id))

NextRun == RunDeposit \/ RunWithdrawal \/ RunDispute \/ RunResolve \/ RunChargeback

\* the loop is straight-line synchronous code: while a token is left the
\* next iteration runs
SpecRun == InitRun /\ [][NextRun]_vars /\ WF_vars(NextRun)

\* ---- vocabulary of the properties ----
\* the account the last token's arm handed to the operation: the stored one,
\* or the one or_insert_with created for a client id not seen before
Pre == or_insert_with(prev, last.token.client_id)[last.token.client_id]

\* the account of the last token's client after the call
Post == clients[last.token.client_id]

LastIs(ty) == last.token.transaction_type = ty

ErrorKinds ==
    {"LockedAccount", "NotEnoughCredit", "TransactionDoesNotExist",
     "TransactionNotDisputed"}

Stored(acct, t) == t \in DOMAIN acct.transactions

Disputed(acct, t) == Stored(acct, t) /\ acct.transactions[t].disputed

SameBalances(a, b) ==
    /\ a.available_amount = b.available_amount
    /\ a.held_amount = b.held_amount
    /\ a.total_amount = b.total_amount

\* C1: in every reachable account state, whatever the operations were and
\* whether they succeeded, total_amount = available_amount + held_amount.
C1_TotalIsAvailablePlusHeld ==
    \A c \in DOMAIN clients :
        clients[c].total_amount =
            clients[c].available_amount + clients[c].held_amount

\* a chargeback succeeded on an account that still holds funds and whose
\* available balance is not zero
C1_Witness ==
    /\ LastIs("Chargeback") /\ last.result = Ok
    /\ Post.held_amount > 0
    /\ Post.available_amount # 0

\* C2: once locked, an account stays locked and is never modified again, and
\* every operation called on it returns LockedAccount(client_id), whatever
\* the transaction id or amount.
C2_LockedIsFinal ==
    [][\A c \in DOMAIN clients :
          clients[c].locked =>
              /\ c \in DOMAIN clients'
              /\ clients'[c].locked
              /\ clients'[c] = clients[c]
              /\ (last'.token.client_id = c /\ last'.result # Skipped)
                     => last'.result = LockedAccount(c)]_vars

\* a resolve naming an id the locked account never stored was rejected with
\* LockedAccount
C2_Witness ==
    /\ LastIs("Resolve")
    /\ last.result = LockedAccount(last.token.client_id)
    /\ Pre.locked
    /\ ~Stored(Post, last.token.transaction_id)

\* C3: an operation that returns an error leaves the account exactly as it
\* was: balances, locked flag, the set of stored ids and every record.
C3_FailureLeavesAccountUnchanged ==
    last.result[1] \in ErrorKinds =>
        /\ last.token.client_id \in DOMAIN clients
        /\ Post = Pre
        /\ Post.available_amount = Pre.available_amount
        /\ Post.held_amount = Pre.held_amount
        /\ Post.total_amount = Pre.total_amount
        /\ Post.locked = Pre.locked
        /\ DOMAIN Post.transactions = DOMAIN Pre.transactions
        /\ \A t \in DOMAIN Pre.transactions :
               /\ Post.transactions[t].amount = Pre.transactions[t].amount
               /\ Post.transactions[t].disputed = Pre.transactions[t].disputed

\* a chargeback was rejected with TransactionNotDisputed on an account that
\* has another record under dispute
C3_Witness ==
    /\ LastIs("Chargeback")
    /\ last.result[1] = "TransactionNotDisputed"
    /\ Post.held_amount > 0
    /\ \E u \in DOMAIN Post.transactions : Post.transactions[u].disputed

\* C4: on an unlocked account withdrawal fails with NotEnoughCredit, without
\* any change, exactly when available < amount; otherwise it stores the
\* record (amount, not disputed) and takes amount from total and available,
\* held unchanged, so available stays >= 0 when amount >= 0.
C4_WithdrawalGuard ==
    (LastIs("Withdrawal") /\ last.token.amount # None /\ ~Pre.locked) =>
        LET amount == last.token.amount[1]
            t == last.token.transaction_id
        IN /\ (last.result = NotEnoughCredit(last.token.client_id))
                  <=> (Pre.available_amount < amount)
           /\ Pre.available_amount < amount =>
                  /\ SameBalances(Post, Pre)
                  /\ Post.transactions = Pre.transactions
           /\ ~(Pre.available_amount < amount) =>
                  /\ last.result = Ok
                  /\ Stored(Post, t)
                  /\ Post.transactions[t].amount = amount
                  /\ Post.transactions[t].disputed = FALSE
                  /\ Post.total_amount = Pre.total_amount - amount
                  /\ Post.available_amount = Pre.available_amount - amount
                  /\ Post.held_amount = Pre.held_amount
                  /\ (amount >= 0 => Post.available_amount >= 0)

\* a withdrawal that total would have covered was refused because part of
\* the funds is held
C4_Witness ==
    /\ LastIs("Withdrawal") /\ last.token.amount # None
    /\ last.result = NotEnoughCredit(last.token.client_id)
    /\ last.token.amount[1] > 0
    /\ Pre.held_amount > 0
    /\ Pre.total_amount >= last.token.amount[1]

\* C5: resolve of a disputed record of an unlocked account succeeds and
\* clears the flag; a second resolve of the same record right after it
\* returns TransactionNotDisputed and changes no balance.
C5_ResolveTwice ==
    [][\A c \in DOMAIN clients, t \in TxIds :
          /\ (/\ ~clients[c].locked
              /\ Disputed(clients[c], t)
              /\ last'.token = Token("Resolve", c, t, None))
                 => /\ last'.result = Ok
                    /\ ~clients'[c].transactions[t].disputed
          /\ (/\ last = [token |-> Token("Resolve", c, t, None), result |-> Ok]
              /\ last'.token = Token("Resolve", c, t, None))
                 => /\ last'.result = TransactionNotDisputed(t, c)
                    /\ SameBalances(clients'[c], clients[c])]_vars

\* the first resolve of a disputed record has succeeded and the input is not
\* exhausted, so the second resolve is taken from this state
C5_Witness ==
    /\ LastIs("Resolve") /\ last.result = Ok
    /\ Disputed(Pre, last.token.transaction_id)
    /\ ~Disputed(Post, last.token.transaction_id)
    /\ consumed < MaxTokens

LastWas(ty, c, t, res) ==
    last = [token |-> Token(ty, c, t, None), result |-> res]

\* C6 as stated: a second chargeback of the same record right after a
\* successful one returns TransactionNotDisputed and changes no balance.
C6_ChargebackTwiceNotDisputed ==
    [][\A c \in DOMAIN clients, t \in TxIds :
          (/\ LastWas("Chargeback", c, t, Ok)
           /\ last'.token = Token("Chargeback", c, t, None))
              => /\ last'.result = TransactionNotDisputed(t, c)
                 /\ SameBalances(clients'[c], clients[c])]_vars

\* C6 amended: chargeback of a disputed record of an unlocked account
\* succeeds, clears the flag and locks the account, so a second chargeback
\* of the same record right after it returns LockedAccount(client_id), the
\* lock being tested before the record is looked up; it changes no balance.
C6_ChargebackTwiceLocked ==
    [][\A c \in DOMAIN clients, t \in TxIds :
          /\ (/\ ~clients[c].locked
              /\ Disputed(clients[c], t)
              /\ last'.token = Token("Chargeback", c, t, None))
                 => /\ last'.result = Ok
                    /\ ~clients'[c].transactions[t].disputed
          /\ (/\ LastWas("Chargeback", c, t, Ok)
              /\ last'.token = Token("Chargeback", c, t, None))
                 => /\ last'.result = LockedAccount(c)
                    /\ SameBalances(clients'[c], clients[c])]_vars

\* the fourth token was a chargeback refused with LockedAccount on an
\* account holding one record, not disputed any more: the three tokens
\* before it can only be the record's deposit or withdrawal, its dispute and
\* its successful chargeback
C6_Witness ==
    /\ consumed = 4
    /\ LastIs("Chargeback")
    /\ last.result = LockedAccount(last.token.client_id)
    /\ DOMAIN Post.transactions = {last.token.transaction_id}
    /\ ~Disputed(Post, last.token.transaction_id)
    /\ DOMAIN clients = {last.token.client_id}

\* C7: on an unlocked account, dispute of a stored record that is not
\* disputed succeeds, and a resolve of the same record right after it
\* succeeds and restores available, held, total and the record's flag to
\* their values before the dispute.
C7_DisputeResolveRoundTrip ==
    [][\A c \in DOMAIN clients, t \in TxIds :
          /\ (/\ ~clients[c].locked
              /\ Stored(clients[c], t)
              /\ ~Disputed(clients[c], t)
              /\ last'.token = Token("Dispute", c, t, None))
                 => /\ last'.result = Ok
                    /\ Disputed(clients'[c], t)
          /\ (/\ LastWas("Dispute", c, t, Ok)
              /\ c \in DOMAIN prev
              /\ Stored(prev[c], t)
              /\ ~Disputed(prev[c], t)
              /\ last'.token = Token("Resolve", c, t, None))
                 => /\ last'.result = Ok
                    /\ SameBalances(clients'[c], prev[c])
                    /\ clients'[c].transactions[t].disputed
                           = prev[c].transactions[t].disputed
                    /\ clients'[c] = prev[c]]_vars

\* the third token was a successful resolve that returned a positive amount
\* to available: the two before it can only be the deposit of the record and
\* its dispute
C7_Witness ==
    /\ consumed = 3
    /\ LastIs("Resolve") /\ last.result = Ok
    /\ Post.held_amount = 0
    /\ Post.available_amount > 0
    /\ Post.available_amount = Post.transactions[last.token.transaction_id].amount
    /\ Post.total_amount = Post.available_amount

\* C8: a successful chargeback clears the record's flag, takes the record's
\* amount from held and total, leaves available unchanged, locks the
\* account and leaves every other record as it was.
C8_ChargebackEffect ==
    (LastIs("Chargeback") /\ last.result = Ok) =>
        LET t == last.token.transaction_id
            amount == Pre.transactions[t].amount
        IN /\ ~Pre.locked
           /\ Pre.transactions[t].disputed
           /\ ~Post.transactions[t].disputed
           /\ Post.transactions[t].amount = amount
           /\ Post.held_amount = Pre.held_amount - amount
           /\ Post.total_amount = Pre.total_amount - amount
           /\ Post.available_amount = Pre.available_amount
           /\ Post.locked
           /\ DOMAIN Post.transactions = DOMAIN Pre.transactions
           /\ \A u \in DOMAIN Pre.transactions \ {t} :
                  Post.transactions[u] = Pre.transactions[u]

\* a chargeback succeeded while another record of the account stays under
\* dispute with its funds held
C8_Witness ==
    /\ LastIs("Chargeback") /\ last.result = Ok
    /\ \E u \in DOMAIN Post.transactions \ {last.token.transaction_id} :
           /\ Post.transactions[u].disputed
           /\ Post.transactions[u].amount > 0
           /\ Post.held_amount = Post.transactions[u].amount

\* C9: dispute of a stored record of an unlocked account succeeds whatever
\* the record's flag; on a record already disputed it moves the amount from
\* available to held once more, so two disputes in a row raise held by twice
\* the amount, while a successful resolve or chargeback takes one amount
\* from held and clears the flag.
C9_RedisputeDoubleCounts ==
    [][\A c \in DOMAIN clients, t \in TxIds :
          /\ (/\ ~clients[c].locked
              /\ Disputed(clients[c], t)
              /\ last'.token = Token("Dispute", c, t, None))
                 => /\ last'.result = Ok
                    /\ Disputed(clients'[c], t)
                    /\ clients'[c].held_amount =
                           clients[c].held_amount + clients[c].transactions[t].amount
                    /\ clients'[c].available_amount =
                           clients[c].available_amount - clients[c].transactions[t].amount
          /\ (/\ LastWas("Dispute", c, t, Ok)
              /\ c \in DOMAIN prev
              /\ Stored(prev[c], t)
              /\ last'.token = Token("Dispute", c, t, None))
                 => /\ last'.result = Ok
                    /\ clients'[c].held_amount =
                           prev[c].held_amount + 2 * prev[c].transactions[t].amount
                    /\ clients'[c].available_amount =
                           prev[c].available_amount - 2 * prev[c].transactions[t].amount
          /\ (/\ last'.token \in {Token("Resolve", c, t, None),
                                  Token("Chargeback", c, t, None)}
              /\ last'.result = Ok)
                 => /\ clients'[c].held_amount =
                           clients[c].held_amount - clients[c].transactions[t].amount
                    /\ ~Disputed(clients'[c], t)]_vars

\* the third token was a successful dispute of a record that was already
\* disputed: the two before it can only be the record's deposit and its
\* first dispute, and held is twice the record's amount
C9_Witness ==
    /\ consumed = 3
    /\ LastIs("Dispute") /\ last.result = Ok
    /\ Disputed(Pre, last.token.transaction_id)
    /\ Post.transactions[last.token.transaction_id].amount > 0
    /\ Post.held_amount = 2 * Post.transactions[last.token.transaction_id].amount

\* C10: when every amount fed to the ledger is non-negative, held_amount is
\* never negative, re-disputes and reused transaction ids included.
C10_HeldNonNegative ==
    \A c \in DOMAIN clients : clients[c].held_amount >= 0

\* a resolve succeeded after a re-dispute or a reused id: no record of the
\* account is disputed any more and funds are still held
C10_Witness ==
    /\ LastIs("Resolve") /\ last.result = Ok
    /\ Post.held_amount > 0
    /\ \A u \in DOMAIN Post.transactions : ~Post.transactions[u].disputed

\* C11: with non-negative amounts a successful deposit or resolve never
\* lowers available (so neither makes it negative), a successful chargeback
\* leaves it as it was, and so does every failing operation: available
\* goes down only in a successful withdrawal or dispute.
C11_OnlyWithdrawalAndDisputeDecrease ==
    (last.result[1] \in ErrorKinds \cup {"Ok"}) =>
        /\ ((LastIs("Deposit") \/ LastIs("Resolve")) /\ last.result = Ok)
               => /\ Post.available_amount >= Pre.available_amount
                  /\ (Pre.available_amount >= 0 => Post.available_amount >= 0)
        /\ (LastIs("Chargeback") /\ last.result = Ok)
               => Post.available_amount = Pre.available_amount
        /\ last.result[1] \in ErrorKinds
               => Post.available_amount = Pre.available_amount
        /\ Post.available_amount < Pre.available_amount
               => /\ LastIs("Withdrawal") \/ LastIs("Dispute")
                  /\ last.result = Ok

\* a resolve gave a positive amount back to an available balance that a
\* dispute had made negative
C11_Witness ==
    /\ LastIs("Resolve") /\ last.result = Ok
    /\ Pre.available_amount < 0
    /\ Post.available_amount > Pre.available_amount

\* the step stored a record under id t of client c: a successful deposit or
\* withdrawal carrying that id
Inserted(c, t) ==
    /\ last'.token.client_id = c
    /\ last'.token.transaction_id = t
    /\ last'.token.transaction_type \in {"Deposit", "Withdrawal"}
    /\ last'.result = Ok

\* the step was a successful dispute, resolve or chargeback of record t of
\* client c
Toggled(c, t) ==
    /\ last'.token.client_id = c
    /\ last'.token.transaction_id = t
    /\ last'.token.transaction_type \in {"Dispute", "Resolve", "Chargeback"}
    /\ last'.result = Ok

\* C12 as stated: a stored record is never deleted or replaced and its
\* amount never changes, whatever comes later, a deposit or withdrawal with
\* the same id included; only its disputed flag changes, by a dispute,
\* resolve or chargeback.
C12_RecordWrittenOnce ==
    [][\A c \in DOMAIN clients :
          \A t \in DOMAIN clients[c].transactions :
              /\ c \in DOMAIN clients'
              /\ Stored(clients'[c], t)
              /\ clients'[c].transactions[t].amount
                     = clients[c].transactions[t].amount
              /\ (clients'[c].transactions[t].disputed
                     # clients[c].transactions[t].disputed) => Toggled(c, t)]_vars

\* C12 amended: a stored record is never deleted; a later successful
\* deposit or withdrawal of the same account carrying the same id replaces
\* it with a new record (the new amount, not disputed); in every other step
\* its amount is unchanged and its flag changes only by a successful
\* dispute, resolve or chargeback of that record.
C12_RecordReplacedOnlyByReusedId ==
    [][\A c \in DOMAIN clients :
          \A t \in DOMAIN clients[c].transactions :
              /\ c \in DOMAIN clients'
              /\ Stored(clients'[c], t)
              /\ Inserted(c, t) =>
                     clients'[c].transactions[t] =
                         [transaction_id |-> t,
                          amount |-> last'.token.amount[1],
                          disputed |-> FALSE]
              /\ ~Inserted(c, t) =>
                     /\ clients'[c].transactions[t].amount
                            = clients[c].transactions[t].amount
                     /\ (clients'[c].transactions[t].disputed
                            # clients[c].transactions[t].disputed)
                                => Toggled(c, t)]_vars

\* a deposit reusing the id of a record under dispute has replaced it by a
\* record of another amount, not disputed, while its funds stay held
C12_Witness ==
    /\ LastIs("Deposit") /\ last.result = Ok
    /\ Disputed(Pre, last.token.transaction_id)
    /\ Pre.transactions[last.token.transaction_id].amount # last.token.amount[1]
    /\ Post.transactions[last.token.transaction_id].amount = last.token.amount[1]
    /\ ~Disputed(Post, last.token.transaction_id)
    /\ Post.held_amount = Pre.held_amount
    /\ Post.held_amount > 0

\* C13: a deposit or withdrawal token without an amount is skipped: no
\* account operation is called, the ledger is left exactly as it was and no
\* account is created for its client id, seen before or not.
C13_MissingAmountIsSkipped ==
    ((LastIs("Deposit") \/ LastIs("Withdrawal")) /\ last.token.amount = None) =>
        /\ last.result = Skipped
        /\ clients = prev
        /\ DOMAIN clients = DOMAIN prev
        /\ last.token.client_id \notin DOMAIN prev
               => last.token.client_id \notin DOMAIN clients

\* a withdrawal without amount for a client id never seen was skipped while
\* the ledger holds another client's account
C13_Witness ==
    /\ LastIs("Withdrawal") /\ last.token.amount = None
    /\ last.result = Skipped
    /\ last.token.client_id \notin DOMAIN clients
    /\ clients # EmptyMap

\* the outcome of the account call a well-formed record stands for, on
\* ledger m
Outcome(m, token) ==
    LET acct == or_insert_with(m, token.client_id)[token.client_id]
        t == token.transaction_id
    IN CASE token.transaction_type = "Deposit" -> deposit(acct, t, token.amount[1])
         [] token.transaction_type = "Withdrawal" -> withdrawal(acct, t, token.amount[1])
         [] token.transaction_type = "Dispute" -> dispute(acct, t)
         [] token.transaction_type = "Resolve" -> resolve(acct, t)
         [] token.transaction_type = "Chargeback" -> chargeback(acct, t)

WellFormed(token) ==
    token.transaction_type \in {"Deposit", "Withdrawal"} => token.amount # None

\* ledger m after one record, the Result of the call dropped
ApplyRecord(m, token) ==
    IF WellFormed(token)
    THEN insert(or_insert_with(m, token.client_id), token.client_id,
                Outcome(m, token).client)
    ELSE m

RECURSIVE ApplyAll(_, _)
\* ledger m after the records of seq, one by one in their order
ApplyAll(m, seq) ==
    IF seq = <<>> THEN m ELSE ApplyAll(ApplyRecord(m, Head(seq)), Tail(seq))

\* C14: process_requests terminates, and it takes the records one by one in
\* input order, each exactly once, whatever the earlier ones returned: after
\* each iteration, and so at the end, the ledger is the one obtained by
\* applying the records taken so far in arrival order with failures ignored.
C14_EveryRecordOnceInOrder ==
    /\ <>(consumed = Len(tokens))
    /\ [][/\ consumed' = consumed + 1
          /\ consumed' <= Len(tokens)
          /\ last'.token = tokens[consumed']
          /\ tokens' = tokens]_vars
    /\ [](clients = ApplyAll(EmptyMap, SubSeq(tokens, 1, consumed)))

\* the whole input was taken, its last record succeeded on the account on
\* which an earlier record had failed
C14_Witness ==
    /\ Len(tokens) >= 2
    /\ consumed = Len(tokens)
    /\ tokens[1].transaction_type = "Withdrawal"
    /\ tokens[1].amount = Some(1)
    /\ tokens[1].client_id = last.token.client_id
    /\ LastIs("Deposit") /\ last.result = Ok
    /\ last.token.amount = Some(1)
    /\ Post.available_amount = 1
    /\ Post.total_amount = 1
    /\ DOMAIN Post.transactions = {last.token.transaction_id}

\* an account as it is when created: zero balances, unlocked, no records
Fresh(c) ==
    [client_id |-> c, available_amount |-> 0, held_amount |-> 0,
     total_amount |-> 0, locked |-> FALSE, transactions |-> <<>>]

\* C15: the ledger gains an account exactly when a well-formed record names
\* a client id it does not hold yet, also when the call fails; the new
\* account starts from zero balances, unlocked, without records; an account
\* the ledger holds is never removed and never started afresh.
C15_AccountsLazyAndPermanent ==
    [][/\ DOMAIN clients' =
              DOMAIN clients \cup
                  (IF last'.result # Skipped THEN {last'.token.client_id} ELSE {})
       /\ \A c \in DOMAIN clients' \ DOMAIN clients :
              LET t == last'.token.transaction_id
                  signed == IF last'.token.transaction_type = "Deposit"
                            THEN last'.token.amount[1]
                            ELSE 0 - last'.token.amount[1]
              IN IF last'.result = Ok
                 THEN /\ last'.token.transaction_type \in {"Deposit", "Withdrawal"}
                      /\ clients'[c] =
                             [Fresh(c) EXCEPT
                                 !.available_amount = signed,
                                 !.total_amount = signed,
                                 !.transactions =
                                     (t :> [transaction_id |-> t,
                                            amount |-> last'.token.amount[1],
                                            disputed |-> FALSE])]
                 ELSE clients'[c] = Fresh(c)
       /\ \A c \in DOMAIN clients :
              /\ c \in DOMAIN clients'
              /\ DOMAIN clients[c].transactions \subseteq DOMAIN clients'[c].transactions
              /\ clients[c].locked => clients'[c].locked
              /\ c # last'.token.client_id => clients'[c] = clients[c]]_vars

\* a dispute naming a client id never seen failed with
\* TransactionDoesNotExist and left a new, empty account next to an older
\* account that has records
C15_Witness ==
    /\ LastIs("Dispute")
    /\ last.result = TransactionDoesNotExist(last.token.client_id,
                                             last.token.transaction_id)
    /\ last.token.client_id \notin DOMAIN prev
    /\ Post = Fresh(last.token.client_id)
    /\ \E d \in DOMAIN prev : DOMAIN clients[d].transactions # {}

\* the last token named, in a dispute, resolve or chargeback of client c, an
\* id that c does not store and another client does
NamesForeignId ==
    /\ LastIs("Dispute") \/ LastIs("Resolve") \/ LastIs("Chargeback")
    /\ ~Stored(Pre, last.token.transaction_id)
    /\ \E d \in DOMAIN prev \ {last.token.client_id} :
           Stored(prev[d], last.token.transaction_id)

\* routing the last token left every other client's account as it was and
\* created or removed no account but, at most, the token's own
OthersUntouched ==
    /\ DOMAIN clients \ {last.token.client_id} = DOMAIN prev \ {last.token.client_id}
    /\ \A d \in DOMAIN prev \ {last.token.client_id} : clients[d] = prev[d]

\* the ledger m cut down to the account of c
Only(m, c) == [d \in DOMAIN m \cap {c} |-> m[d]]

\* C16 as stated: routing a record for client c leaves every other account
\* unchanged, and a dispute, resolve or chargeback of c naming an id stored
\* only under another client fails with TransactionDoesNotExist(c, tx).
C16_ForeignIdDoesNotExist ==
    (last.token.transaction_type # "None") =>
        /\ OthersUntouched
        /\ NamesForeignId =>
               last.result = TransactionDoesNotExist(last.token.client_id,
                                                     last.token.transaction_id)

\* C16 amended: routing a record for client c leaves every other account
\* unchanged; a dispute, resolve or chargeback of c naming an id stored only
\* under another client fails, with TransactionDoesNotExist(c, tx) when c is
\* unlocked and with LockedAccount(c) when c is locked, and changes nothing;
\* the call's effect on c is the one it has on a ledger holding c alone.
C16_AccountsIndependent ==
    (last.token.transaction_type # "None") =>
        /\ OthersUntouched
        /\ NamesForeignId =>
               /\ ~Pre.locked =>
                      last.result = TransactionDoesNotExist(last.token.client_id,
                                                            last.token.transaction_id)
               /\ Pre.locked => last.result = LockedAccount(last.token.client_id)
               /\ Post = Pre
        /\ last.result # Skipped =>
               /\ Post = Outcome(Only(prev, last.token.client_id), last.token).client
               /\ last.result =
                      Outcome(Only(prev, last.token.client_id), last.token).result

\* a dispute of an unlocked client that has records of its own named an id
\* stored only under another client and failed with TransactionDoesNotExist
C16_Witness ==
    /\ LastIs("Dispute")
    /\ NamesForeignId
    /\ ~Pre.locked
    /\ DOMAIN Pre.transactions # {}
    /\ last.result = TransactionDoesNotExist(last.token.client_id,
                                             last.token.transaction_id)

\* C17: on an unlocked account dispute, resolve and chargeback return
\* TransactionDoesNotExist(client, tx) when the id is not stored; otherwise
\* resolve and chargeback return TransactionNotDisputed(tx, client) when the
\* record is not disputed and succeed when it is; dispute of a stored
\* record always succeeds and sets the flag, whatever the balances.
C17_PreconditionOrder ==
    ((LastIs("Dispute") \/ LastIs("Resolve") \/ LastIs("Chargeback"))
         /\ ~Pre.locked) =>
        LET c == last.token.client_id
            t == last.token.transaction_id
        IN IF ~Stored(Pre, t)
           THEN last.result = TransactionDoesNotExist(c, t)
           ELSE IF LastIs("Dispute")
           THEN last.result = Ok /\ Disputed(Post, t)
           ELSE IF ~Pre.transactions[t].disputed
           THEN last.result = TransactionNotDisputed(t, c)
           ELSE last.result = Ok

\* a dispute succeeded although available did not cover the record's amount
C17_Witness ==
    /\ LastIs("Dispute") /\ last.result = Ok
    /\ Pre.transactions[last.token.transaction_id].amount > 0
    /\ Pre.available_amount < Pre.transactions[last.token.transaction_id].amount
    /\ Disputed(Post, last.token.transaction_id)
    /\ Post.available_amount < 0

RECURSIVE SumAmounts(_, _)
\* the sum of the amounts acct records under the ids of S
SumAmounts(acct, S) ==
    IF S = {} THEN 0
    ELSE LET t == CHOOSE x \in S : TRUE
         IN acct.transactions[t].amount + SumAmounts(acct, S \ {t})

DisputedIds(acct) == {t \in DOMAIN acct.transactions : acct.transactions[t].disputed}

\* C18: when no id is stored twice and no disputed record is disputed
\* again, held_amount is the sum of the amounts of the records currently
\* disputed, 0 when there is none.
C18_HeldIsSumOfDisputed ==
    \A c \in DOMAIN clients :
        clients[c].held_amount = SumAmounts(clients[c], DisputedIds(clients[c]))

\* of two records under dispute one was resolved: the amount of the other
\* is still held
C18_Witness ==
    /\ LastIs("Resolve") /\ last.result = Ok
    /\ DisputedIds(Post) # {}
    /\ Post.held_amount > 0
    /\ Pre.held_amount > Post.held_amount

\* C19: dispute is not guarded by the available balance: on an unlocked
\* account a dispute of a stored record succeeds and takes the amount from
\* available whatever available is, total unchanged, and a chargeback of
\* the record right after it takes the amount from total and locks the
\* account; so non-negative amounts lead to available < 0 and total < 0.
C19_DisputeUnguarded ==
    [][\A c \in DOMAIN clients, t \in TxIds :
          /\ (/\ ~clients[c].locked
              /\ Stored(clients[c], t)
              /\ last'.token = Token("Dispute", c, t, None))
                 => /\ last'.result = Ok
                    /\ clients'[c].available_amount =
                           clients[c].available_amount - clients[c].transactions[t].amount
                    /\ clients'[c].held_amount =
                           clients[c].held_amount + clients[c].transactions[t].amount
                    /\ clients'[c].total_amount = clients[c].total_amount
          /\ (/\ LastWas("Dispute", c, t, Ok)
              /\ last'.token = Token("Chargeback", c, t, None))
                 => /\ last'.result = Ok
                    /\ clients'[c].total_amount =
                           clients[c].total_amount - clients[c].transactions[t].amount
                    /\ clients'[c].available_amount = clients[c].available_amount
                    /\ clients'[c].locked]_vars

\* the fourth token was a successful chargeback that left a locked account
\* with two records of amount A > 0, available = total = -A and nothing
\* held: the tokens were deposit(A), withdrawal(A), dispute and chargeback of
\* the deposit
C19_Witness ==
    /\ consumed = 4
    /\ LastIs("Chargeback") /\ last.result = Ok
    /\ Post.locked
    /\ Cardinality(DOMAIN Post.transactions) = 2
    /\ \A u \in DOMAIN Post.transactions :
           /\ Post.transactions[u].amount > 0
           /\ Post.total_amount = 0 - Post.transactions[u].amount
    /\ Post.available_amount = Post.total_amount
    /\ Post.held_amount = 0
    /\ Pre.available_amount < 0
    /\ Pre.total_amount = 0

\* C20: an account is created unlocked and its locked flag changes in one
\* kind of step only, a successful chargeback on that account, which finds
\* it unlocked and leaves it locked; hence an account is locked if and only
\* if a chargeback on it has succeeded, no second one ever succeeds, and no
\* deposit, withdrawal, dispute, resolve or failing call changes locked.
C20_LockedOnlyByChargeback ==
    [][\A c \in DOMAIN clients' :
          LET before == c \in DOMAIN clients /\ clients[c].locked
              charged == /\ last'.token.client_id = c
                         /\ last'.token.transaction_type = "Chargeback"
                         /\ last'.result = Ok
          IN /\ charged => (~before /\ clients'[c].locked)
             /\ ~charged => (clients'[c].locked = before)]_vars

\* a chargeback on an account that an earlier chargeback had locked was
\* refused, although funds of a re-disputed record are still held
C20_Witness ==
    /\ LastIs("Chargeback")
    /\ last.result = LockedAccount(last.token.client_id)
    /\ Pre.locked /\ Post.locked
    /\ Stored(Post, last.token.transaction_id)
    /\ Post.held_amount > 0

====
